---- MODULE Spec2Model ----
(***************************************************************************)
(* wp-e2e-webdriver: the WebDriver helper (src/src/helper.js) and the      *)
(* WebDriver manager (src/src/manager.js).                                 *)
(*                                                                         *)
(* The helpers are thin closures handed to selenium-webdriver's            *)
(* driver.wait, which evaluates the closure, and on a falsy value either   *)
(* rejects with a timeout (elapsed >= waitMs) or polls again.  A remote    *)
(* command (findElement, isDisplayed, click, clear, sendKeys,              *)
(* getAttribute) is one round trip: it is issued, stays in flight for at   *)
(* least one tick and at most MaxLatency ticks, and takes effect on the    *)
(* page at the moment its answer arrives.                                  *)
(*                                                                         *)
(* selenium-webdriver schedules commands in one of two ways, and the       *)
(* helper's code runs under both: with the promise manager (control flow)  *)
(* every command issued inside a callback is a sub-task that runs to its   *)
(* end before the next command and before the callback's promise settles;  *)
(* with plain promises a promise that is neither returned nor chained runs *)
(* on its own, beside the code that started it.  promiseManager records    *)
(* which one the run uses.                                                 *)
(*                                                                         *)
(* The Manager (src/src/manager.js) is synchronous: the constructor and    *)
(* the setupDriver it calls are one step, which assigns the config into    *)
(* the module's defaultArgs, builds the driver or throws.  SpecManager is  *)
(* the Manager alone, Spec the helpers alone.                              *)
(***************************************************************************)
EXTENDS Integers, Sequences, FiniteSets, TLC

(* ------------------------------ bounds -------------------------------- *)
\* longest round trip of one remote command, in ticks
MaxLatency == 2
\* longest pause of driver.wait between two attempts, in ticks
PollInterval == 1
\* how many times the page changes under the helper
MaxEnvChanges == 2
\* the largest maxlength of the modelled input field
MaxField == 3
\* milliseconds per tick
TickMs == 5000

(* ------------------------- program constants -------------------------- *)
defaultWaitMs == 10000

DefaultWait == defaultWaitMs \div TickMs

\* the waitMs a caller passes, in ticks
WaitChoices == {1, 3}

\* the text a caller types with setWhenSettable
TypedValue == <<"a", "b">>

ProcIds == 1..3

Pollers == {"WP", "WN", "CW", "FC", "SS"}
Kinds == Pollers \cup {"SET", "UNSET", "SEL", "EV"}
CommandPcs == {"find0", "getc", "find", "disp", "click", "clear", "getv", "keys",
               "selclick", "optfind", "optclick"}

\* how many Managers are constructed
MaxManagers == 2

\* how many window sizes wait for the driver at a time
MaxQueued == 2

\* how long the clock runs while quitBrowser is followed, in ticks
MaxTime == 4

\* how many probes the two calls compared side by side may make
MaxProbes == 3

\* the visible texts an option of the dropdown may have
OptionTexts == {<<"a">>, <<"a", "b">>, <<"b">>}

VARIABLES
    promiseManager, \* TRUE: selenium's control flow serialises the commands
    now,            \* the clock, in ticks
    present,        \* the selector locates an element
    displayed,      \* that element is displayed
    clickable,      \* a click on it is accepted
    enabled,        \* clear and sendKeys on it are accepted
    checked,        \* the checkbox state
    fieldVal,       \* the text field's value
    maxlength,      \* the text field's maxlength attribute
    proc,           \* the helper calls and the pollers they started
    nkids,          \* pollers started by setWhenSettable attempts so far
    clicks,         \* clicks the page has accepted
    appended,       \* some sendKeys was typed into a non-empty field
    envLeft,        \* page changes still to come
    since,          \* since when the helper's condition holds of the page (-1: it does not)
    wasGood,        \* the helper's condition has held of the page at some time
    dropdown,       \* the select element: the visible texts of its options, in document order
    optionText,     \* the optionText given to selectOption
    opt,            \* the option element selectOption holds (0: none)
    selected,       \* the option the dropdown has selected (0: none)
    optClicked,     \* the options that accepted a click
    defaultArgs,    \* manager.js: the module's defaultArgs object, which every config is assigned into
    BROWSERSIZE,    \* process.env.BROWSERSIZE
    manager,        \* the Manager constructed last
    nManagers,      \* Managers constructed so far
    sessions,       \* browser sessions started
    commands,       \* commands issued to the driver of the Manager constructed last
    window,         \* size of that driver's browser window
    HEADLESS,       \* process.env.HEADLESS
    resize,         \* the last call of resizeBrowser on that Manager
    setSizeQueue,   \* the window sizes resizeBrowser asked for and the driver has not set yet
    quitCall,       \* the calls of quitBrowser on that Manager
    quits,          \* how many times that Manager's driver has quit
    url,            \* the URL of the page the browser shows
    cookies,        \* the names of the cookies the session has
    localStorage,   \* the keys of the page's localStorage
    clearCall,      \* the call of clearCookiesAndDeleteLocalStorage
    messageArgs,    \* two calls of setWhenSettable that differ in the value at most
    messages,       \* the messages of the errors the two calls were rejected with
    shotCall,       \* the call of takeScreenshot
    files,          \* the files written: <<directory, file name>>
    probes,         \* the outcomes of the probes still to come, for both calls of twin
    twin            \* waitTillPresentAndDisplayed and isEventuallyPresentAndDisplayed, side by side

vars == <<promiseManager, now, present, displayed, clickable, enabled, checked,
          fieldVal, maxlength, proc, nkids, clicks, appended, envLeft, since,
          wasGood, dropdown, optionText, opt, selected, optClicked,
          defaultArgs, BROWSERSIZE, manager, nManagers, sessions, commands, window,
          HEADLESS, resize, setSizeQueue, quitCall, quits,
          url, cookies, localStorage, clearCall, messageArgs, messages,
          shotCall, files, probes, twin>>

equivVars == <<probes, twin>>

screenshotVars == <<shotCall, files>>

messageVars == <<messageArgs, messages>>

storageVars == <<url, cookies, localStorage, clearCall>>

quitVars == <<quitCall, quits>>

resizeVars == <<resize, setSizeQueue>>

sessionVars == <<HEADLESS>>

managerVars == <<defaultArgs, BROWSERSIZE, manager, nManagers, sessions, commands, window,
                 sessionVars, resizeVars, quitVars>>

helperVars == <<promiseManager, now, present, displayed, clickable, enabled, checked,
                fieldVal, maxlength, proc, nkids, clicks, appended, envLeft, since,
                wasGood, dropdown, optionText, opt, selected, optClicked, storageVars,
                messageVars, screenshotVars, equivVars>>

selectVars == <<dropdown, optionText, opt, selected, optClicked>>

hist == <<since, wasGood>>

\* the helpers' state but the clock
helperCalls == <<promiseManager, present, displayed, clickable, enabled, checked,
                 fieldVal, maxlength, proc, nkids, clicks, appended, envLeft, since,
                 wasGood, dropdown, optionText, opt, selected, optClicked, storageVars,
                messageVars, screenshotVars, equivVars>>

page == <<present, displayed, clickable, enabled, checked, fieldVal, maxlength>>

NoProc == [kind |-> "none", pc |-> "idle", res |-> "pending", start |-> 0,
           wait |-> 0, issued |-> 0, h |-> FALSE, f |-> "none", d |-> "none",
           val |-> FALSE, att |-> 0, par |-> 0, kid |-> 0, doneAt |-> 0]

Active(p) == proc[p].kind # "none" /\ proc[p].pc \notin {"idle", "done"}

\* the answer of the command p has in flight may arrive
Answered(p) == now - proc[p].issued >= 1

(* --------------------------- pure helpers ----------------------------- *)
returnFalse == FALSE

returnTrue_False == FALSE

returnTrue == TRUE

\* promise.then( onFulfilled, onRejected ) of a settled promise
Then(fulfilled, onFulfilled, onRejected) ==
    IF fulfilled THEN onFulfilled ELSE onRejected

\* what element.isDisplayed() answers through handle h
IsDisplayedOutcome(h) ==
    IF ~h THEN "rejected" ELSE IF displayed THEN "true" ELSE "false"

\* the value of one attempt of waitTillPresentAndDisplayed
PresentAndDisplayedAttempt(f, d) ==
    Then(f = "found", Then(d # "rejected", returnTrue, returnFalse), returnFalse)

NotPresentAttempt_HonoursValue(f, d) ==
    Then(f = "found", Then(d # "rejected", d = "false", returnTrue), returnTrue)

\* the value of one attempt of waitTillNotPresent
NotPresentAttempt(f, d) ==
    Then(f = "found", Then(d # "rejected", returnFalse, returnTrue), returnTrue)

\* element.getAttribute( 'checked' )
GetAttributeChecked == IF checked THEN "true" ELSE "null"

\* the field after sendKeys( keys ): typed at the end, cut at maxlength
Typed(old, keys) ==
    LET all == old \o keys
    IN  IF Len(all) <= maxlength THEN all ELSE SubSeq(all, 1, maxlength)

\* the condition of the page under which an attempt of helper k yields true
GoodOf(k, pres, clk, en) ==
    CASE k = "WP" -> pres
      [] k = "WN" -> ~pres
      [] k = "CW" -> pres /\ clk
      [] k = "FC" -> pres /\ en
      [] k = "SS" -> pres /\ en /\ Len(TypedValue) <= maxlength
      [] OTHER -> FALSE

(* --------------------- driver.wait and the promises ------------------- *)
\* how the outcome of a helper's wait reaches the promise the helper returned
Settle(r, outcome) ==
    IF r.kind = "UNSET"
    THEN \* the callback returns nothing: with plain promises the promise has
         \* resolved already, with the promise manager it waits for the
         \* sub-tasks and fails with them
         IF r.res # "pending"
         THEN [r EXCEPT !.pc = "done"]
         ELSE [r EXCEPT !.pc = "done", !.doneAt = now,
                        !.res = IF outcome = "true" THEN "undefined" ELSE outcome]
    ELSE [r EXCEPT !.pc = "done", !.res = outcome, !.doneAt = now]

Poll_ResolvesFalse(r, val) ==
    IF val THEN Settle([r EXCEPT !.val = TRUE], "true")
    ELSE Settle([r EXCEPT !.val = FALSE], "false")

Poll_NoDeadline(r, val) ==
    IF val THEN Settle([r EXCEPT !.val = TRUE], "true")
    ELSE [r EXCEPT !.val = FALSE, !.pc = "sleep", !.issued = now]

\* driver.wait after an attempt that yielded val
Poll(r, val) ==
    IF val THEN Settle([r EXCEPT !.val = TRUE], "true")
    ELSE IF now - r.start >= r.wait THEN Settle([r EXCEPT !.val = FALSE], "timeout")
    ELSE [r EXCEPT !.val = FALSE, !.pc = "sleep", !.issued = now]

\* driver.wait starts: the first attempt issues findElement
StartWait(r, waitMs) ==
    [r EXCEPT !.pc = "find", !.start = now, !.wait = waitMs, !.issued = now,
              !.att = now, !.h = FALSE]

(* ----------------------- waitTillPresentAndDisplayed ------------------ *)
waitTillPresentAndDisplayed(p, waitMs) ==
    /\ p = 1 /\ proc[p].kind = "WP" /\ proc[p].pc = "idle"
    /\ proc' = [proc EXCEPT ![p] = StartWait(@, waitMs)]
    /\ UNCHANGED <<managerVars, equivVars, screenshotVars, storageVars, messageVars, selectVars, promiseManager, now, page, nkids, clicks, appended, envLeft, hist>>

waitTillPresentAndDisplayed_findElement(p) ==
    LET r == proc[p] IN
    /\ r.kind = "WP" /\ r.pc = "find" /\ Answered(p)
    /\ proc' = [proc EXCEPT ![p] =
          IF present
          THEN [r EXCEPT !.pc = "disp", !.h = TRUE, !.f = "found", !.d = "none",
                         !.issued = now]
          ELSE Poll([r EXCEPT !.f = "rejected", !.d = "none"],
                    PresentAndDisplayedAttempt("rejected", "none"))]
    /\ UNCHANGED <<managerVars, equivVars, screenshotVars, storageVars, messageVars, selectVars, promiseManager, now, page, nkids, clicks, appended, envLeft, hist>>

waitTillPresentAndDisplayed_isDisplayed(p) ==
    LET r == proc[p]
        d == IsDisplayedOutcome(r.h) IN
    /\ r.kind = "WP" /\ r.pc = "disp" /\ Answered(p)
    /\ proc' = [proc EXCEPT ![p] =
          Poll([r EXCEPT !.d = d], PresentAndDisplayedAttempt("found", d))]
    /\ UNCHANGED <<managerVars, equivVars, screenshotVars, storageVars, messageVars, selectVars, promiseManager, now, page, nkids, clicks, appended, envLeft, hist>>

(* --------------------- isEventuallyPresentAndDisplayed ---------------- *)
\* the value of one attempt of isEventuallyPresentAndDisplayed
EventuallyAttempt(f, d) ==
    Then(f = "found", Then(d # "rejected", returnTrue, returnFalse), returnFalse)

Shown_NoRejectionHandler(r) == r

\* driver.wait( ... ).then( ( shown ) => shown, returnFalse )
Shown(r) ==
    IF r.pc # "done" THEN r
    ELSE [r EXCEPT !.res = Then(r.res = "true", r.res,
                                IF returnFalse THEN "true" ELSE "false")]

isEventuallyPresentAndDisplayed(p, waitMs) ==
    /\ p = 1 /\ proc[p].kind = "EV" /\ proc[p].pc = "idle"
    /\ proc' = [proc EXCEPT ![p] = StartWait(@, waitMs)]
    /\ UNCHANGED <<managerVars, equivVars, screenshotVars, storageVars, messageVars, selectVars, promiseManager, now, page, nkids, clicks, appended, envLeft, hist>>

isEventuallyPresentAndDisplayed_findElement(p) ==
    LET r == proc[p] IN
    /\ r.kind = "EV" /\ r.pc = "find" /\ Answered(p)
    /\ proc' = [proc EXCEPT ![p] =
          IF present
          THEN [r EXCEPT !.pc = "disp", !.h = TRUE, !.f = "found", !.d = "none",
                         !.issued = now]
          ELSE Shown(Poll([r EXCEPT !.f = "rejected", !.d = "none"],
                          EventuallyAttempt("rejected", "none")))]
    /\ UNCHANGED <<managerVars, equivVars, screenshotVars, storageVars, messageVars, selectVars, promiseManager, now, page, nkids, clicks, appended, envLeft, hist>>

isEventuallyPresentAndDisplayed_isDisplayed(p) ==
    LET r == proc[p]
        d == IsDisplayedOutcome(r.h) IN
    /\ r.kind = "EV" /\ r.pc = "disp" /\ Answered(p)
    /\ proc' = [proc EXCEPT ![p] =
          Shown(Poll([r EXCEPT !.d = d], EventuallyAttempt("found", d)))]
    /\ UNCHANGED <<managerVars, equivVars, screenshotVars, storageVars, messageVars, selectVars, promiseManager, now, page, nkids, clicks, appended, envLeft, hist>>

(* ------- waitTillPresentAndDisplayed and isEventuallyPresentAndDisplayed, ---- *)
(* ------- on the same probe outcomes                                       ---- *)
\* what one probe answers: findElement, then isDisplayed
ProbeOutcomes == {[f |-> "rejected", d |-> "none"], [f |-> "found", d |-> "true"],
                  [f |-> "found", d |-> "false"], [f |-> "found", d |-> "rejected"]}

\* the two helpers are called with the same timeout
callBoth(waitMs) ==
    /\ twin = <<NoProc, NoProc>>
    /\ probes # <<>>
    /\ twin' = <<StartWait([NoProc EXCEPT !.kind = "WP"], waitMs),
                 StartWait([NoProc EXCEPT !.kind = "EV"], waitMs)>>
    /\ UNCHANGED <<managerVars, screenshotVars, storageVars, messageVars, selectVars,
                   promiseManager, now, page, proc, nkids, clicks, appended, envLeft,
                   hist, probes>>

\* the probe of each call is answered, with the same outcome, and driver.wait
\* settles the call or polls again
probeBoth ==
    LET o == Head(probes) IN
    /\ probes # <<>>
    /\ \A i \in 1..2 : twin[i].pc \in {"find", "sleep"} /\ now - twin[i].issued >= 1
    /\ twin' = <<Poll([twin[1] EXCEPT !.f = o.f, !.d = o.d],
                      PresentAndDisplayedAttempt(o.f, o.d)),
                 Shown(Poll([twin[2] EXCEPT !.f = o.f, !.d = o.d],
                            EventuallyAttempt(o.f, o.d)))>>
    /\ probes' = Tail(probes)
    /\ UNCHANGED <<managerVars, screenshotVars, storageVars, messageVars, selectVars,
                   promiseManager, now, page, proc, nkids, clicks, appended, envLeft, hist>>

\* time passes while the probes are in flight or driver.wait pauses
probeTick ==
    /\ \A i \in 1..2 : twin[i].pc \in {"find", "sleep"} /\ now - twin[i].issued < 1
    /\ now' = now + 1
    /\ UNCHANGED <<managerVars, helperCalls>>

(* ---------------------------- waitTillNotPresent ---------------------- *)
waitTillNotPresent(p, waitMs) ==
    /\ p = 1 /\ proc[p].kind = "WN" /\ proc[p].pc = "idle"
    /\ proc' = [proc EXCEPT ![p] = StartWait(@, waitMs)]
    /\ UNCHANGED <<managerVars, equivVars, screenshotVars, storageVars, messageVars, selectVars, promiseManager, now, page, nkids, clicks, appended, envLeft, hist>>

waitTillNotPresent_findElement(p) ==
    LET r == proc[p] IN
    /\ r.kind = "WN" /\ r.pc = "find" /\ Answered(p)
    /\ proc' = [proc EXCEPT ![p] =
          IF present
          THEN [r EXCEPT !.pc = "disp", !.h = TRUE, !.f = "found", !.d = "none",
                         !.issued = now]
          ELSE Poll([r EXCEPT !.f = "rejected", !.d = "none"],
                    NotPresentAttempt("rejected", "none"))]
    /\ UNCHANGED <<managerVars, equivVars, screenshotVars, storageVars, messageVars, selectVars, promiseManager, now, page, nkids, clicks, appended, envLeft, hist>>

waitTillNotPresent_isDisplayed(p) ==
    LET r == proc[p]
        d == IsDisplayedOutcome(r.h) IN
    /\ r.kind = "WN" /\ r.pc = "disp" /\ Answered(p)
    /\ proc' = [proc EXCEPT ![p] =
          Poll([r EXCEPT !.d = d], NotPresentAttempt("found", d))]
    /\ UNCHANGED <<managerVars, equivVars, screenshotVars, storageVars, messageVars, selectVars, promiseManager, now, page, nkids, clicks, appended, envLeft, hist>>

(* ---------------------------- clickWhenClickable ---------------------- *)
clickWhenClickable(p, waitMs) ==
    /\ p = 1 /\ proc[p].kind = "CW" /\ proc[p].pc = "idle"
    /\ proc' = [proc EXCEPT ![p] = StartWait(@, waitMs)]
    /\ UNCHANGED <<managerVars, equivVars, screenshotVars, storageVars, messageVars, selectVars, promiseManager, now, page, nkids, clicks, appended, envLeft, hist>>

\* also the clickWhenClickable that setCheckbox and unsetCheckbox call
clickWhenClickable_findElement(p) ==
    LET r == proc[p] IN
    /\ r.kind \in {"CW", "SET", "UNSET"} /\ r.pc = "find" /\ Answered(p)
    /\ proc' = [proc EXCEPT ![p] =
          IF present
          THEN [r EXCEPT !.pc = "click", !.h = TRUE, !.issued = now]
          ELSE Poll(r, returnFalse)]
    /\ UNCHANGED <<managerVars, equivVars, screenshotVars, storageVars, messageVars, selectVars, promiseManager, now, page, nkids, clicks, appended, envLeft, hist>>

clickWhenClickable_click(p) ==
    LET r == proc[p] IN
    /\ r.kind \in {"CW", "SET", "UNSET"} /\ r.pc = "click" /\ Answered(p)
    /\ IF r.h /\ clickable
       THEN /\ clicks' = clicks + 1
            /\ checked' = IF r.kind = "CW" THEN checked ELSE ~checked
            /\ proc' = [proc EXCEPT ![p] = Poll(r, returnTrue)]
       ELSE /\ UNCHANGED <<clicks, checked>>
            /\ proc' = [proc EXCEPT ![p] = Poll(r, returnFalse)]
    /\ UNCHANGED <<managerVars, equivVars, screenshotVars, storageVars, messageVars, selectVars, promiseManager, now, present, displayed, clickable, enabled,
                   fieldVal, maxlength, nkids, appended, envLeft, hist>>

(* ------------------------ setCheckbox, unsetCheckbox ------------------ *)
\* the first call, or a second one once the first call's promise has resolved
MayCall(p, k) ==
    \/ p = 1 /\ proc[1].kind = k /\ proc[1].pc = "idle"
    \/ p = 2 /\ proc[2].kind = "none" /\ proc[1].kind = k
             /\ proc[1].res \in {"true", "undefined"}

NeedsClickToSet_Always(attr) == TRUE

\* setCheckbox: checked !== 'true'
NeedsClickToSet(attr) == attr # "true"

\* unsetCheckbox: checked === 'true'
NeedsClickToUnset(attr) == attr = "true"

setCheckbox(p) ==
    /\ MayCall(p, "SET")
    /\ proc' = [proc EXCEPT ![p] =
          [NoProc EXCEPT !.kind = "SET", !.pc = "find0", !.issued = now]]
    /\ UNCHANGED <<managerVars, equivVars, screenshotVars, storageVars, messageVars, selectVars, promiseManager, now, page, nkids, clicks, appended, envLeft, hist>>

setCheckbox_findElement(p) ==
    LET r == proc[p] IN
    /\ r.kind = "SET" /\ r.pc = "find0" /\ Answered(p)
    /\ proc' = [proc EXCEPT ![p] =
          IF present
          THEN [r EXCEPT !.pc = "getc", !.h = TRUE, !.issued = now]
          ELSE Settle(r, "error")]
    /\ UNCHANGED <<managerVars, equivVars, screenshotVars, storageVars, messageVars, selectVars, promiseManager, now, page, nkids, clicks, appended, envLeft, hist>>

setCheckbox_getAttribute(p) ==
    LET r == proc[p] IN
    /\ r.kind = "SET" /\ r.pc = "getc" /\ Answered(p)
    /\ proc' = [proc EXCEPT ![p] =
          IF ~r.h THEN Settle(r, "error")
          ELSE IF NeedsClickToSet(GetAttributeChecked)
               THEN StartWait([r EXCEPT !.d = GetAttributeChecked], DefaultWait)
               ELSE Settle([r EXCEPT !.d = GetAttributeChecked], "true")]
    /\ UNCHANGED <<managerVars, equivVars, screenshotVars, storageVars, messageVars, selectVars, promiseManager, now, page, nkids, clicks, appended, envLeft, hist>>

unsetCheckbox(p) ==
    /\ MayCall(p, "UNSET")
    /\ proc' = [proc EXCEPT ![p] =
          [NoProc EXCEPT !.kind = "UNSET", !.pc = "find0", !.issued = now]]
    /\ UNCHANGED <<managerVars, equivVars, screenshotVars, storageVars, messageVars, selectVars, promiseManager, now, page, nkids, clicks, appended, envLeft, hist>>

\* the callback starts getAttribute and returns nothing
unsetCheckbox_findElement(p) ==
    LET r == proc[p] IN
    /\ r.kind = "UNSET" /\ r.pc = "find0" /\ Answered(p)
    /\ proc' = [proc EXCEPT ![p] =
          IF present
          THEN [r EXCEPT !.pc = "getc", !.h = TRUE, !.issued = now,
                         !.res = IF promiseManager THEN "pending" ELSE "undefined",
                         !.doneAt = now]
          ELSE Settle(r, "error")]
    /\ UNCHANGED <<managerVars, equivVars, screenshotVars, storageVars, messageVars, selectVars, promiseManager, now, page, nkids, clicks, appended, envLeft, hist>>

unsetCheckbox_getAttribute(p) ==
    LET r == proc[p] IN
    /\ r.kind = "UNSET" /\ r.pc = "getc" /\ Answered(p)
    /\ proc' = [proc EXCEPT ![p] =
          IF ~r.h THEN Settle(r, "error")
          ELSE IF NeedsClickToUnset(GetAttributeChecked)
               THEN StartWait([r EXCEPT !.d = GetAttributeChecked], DefaultWait)
               ELSE Settle([r EXCEPT !.d = GetAttributeChecked], "true")]
    /\ UNCHANGED <<managerVars, equivVars, screenshotVars, storageVars, messageVars, selectVars, promiseManager, now, page, nkids, clicks, appended, envLeft, hist>>

(* --------------------------- waitForFieldClearable -------------------- *)
\* with the promise manager the setWhenSettable attempt that started this
\* poller goes on (or fails) when the poller ends
Resume(parent, childRes) ==
    IF childRes = "true"
    THEN [parent EXCEPT !.pc = "keys", !.issued = now]
    ELSE Settle(parent, childRes)

WithParent(p, r2) ==
    IF r2.par # 0 /\ promiseManager /\ r2.pc = "done"
    THEN [proc EXCEPT ![p] = r2, ![r2.par] = Resume(@, r2.res)]
    ELSE [proc EXCEPT ![p] = r2]

waitForFieldClearable(p, waitMs) ==
    /\ p = 1 /\ proc[p].kind = "FC" /\ proc[p].pc = "idle"
    /\ proc' = [proc EXCEPT ![p] = StartWait(@, waitMs)]
    /\ UNCHANGED <<managerVars, equivVars, screenshotVars, storageVars, messageVars, selectVars, promiseManager, now, page, nkids, clicks, appended, envLeft, hist>>

waitForFieldClearable_findElement(p) ==
    LET r == proc[p] IN
    /\ r.kind = "FC" /\ r.pc = "find" /\ Answered(p)
    /\ proc' = WithParent(p,
          IF present
          THEN [r EXCEPT !.pc = "clear", !.h = TRUE, !.issued = now]
          ELSE Poll(r, returnFalse))
    /\ UNCHANGED <<managerVars, equivVars, screenshotVars, storageVars, messageVars, selectVars, promiseManager, now, page, nkids, clicks, appended, envLeft, hist>>

waitForFieldClearable_clear(p) ==
    LET r == proc[p] IN
    /\ r.kind = "FC" /\ r.pc = "clear" /\ Answered(p)
    /\ IF r.h /\ enabled
       THEN /\ fieldVal' = <<>>
            /\ proc' = [proc EXCEPT ![p] = [r EXCEPT !.pc = "getv", !.issued = now]]
       ELSE /\ UNCHANGED fieldVal
            /\ proc' = WithParent(p, Poll(r, returnFalse))
    /\ UNCHANGED <<managerVars, equivVars, screenshotVars, storageVars, messageVars, selectVars, promiseManager, now, present, displayed, clickable, enabled,
                   checked, maxlength, nkids, clicks, appended, envLeft, hist>>

\* a rejected getAttribute has no handler: the wait is rejected with it
waitForFieldClearable_getAttribute(p) ==
    LET r == proc[p] IN
    /\ r.kind = "FC" /\ r.pc = "getv" /\ Answered(p)
    /\ proc' = WithParent(p,
          IF r.h THEN Poll(r, fieldVal = <<>>) ELSE Settle(r, "error"))
    /\ UNCHANGED <<managerVars, equivVars, screenshotVars, storageVars, messageVars, selectVars, promiseManager, now, page, nkids, clicks, appended, envLeft, hist>>

(* ------------------------------ setWhenSettable ----------------------- *)
setWhenSettable(p, waitMs) ==
    /\ p = 1 /\ proc[p].kind = "SS" /\ proc[p].pc = "idle"
    /\ proc' = [proc EXCEPT ![p] = StartWait(@, waitMs)]
    /\ UNCHANGED <<managerVars, equivVars, screenshotVars, storageVars, messageVars, selectVars, promiseManager, now, page, nkids, clicks, appended, envLeft, hist>>

\* the attempt starts waitForFieldClearable, drops its promise, and sends the keys
setWhenSettable_findElement(p) ==
    LET r == proc[p]
        c == nkids + 2 IN
    /\ r.kind = "SS" /\ r.pc = "find" /\ Answered(p)
    /\ IF present
       THEN /\ c \in ProcIds
            /\ proc' = [proc EXCEPT
                  ![c] = StartWait([NoProc EXCEPT !.kind = "FC", !.par = p], DefaultWait),
                  ![p] = [r EXCEPT !.h = TRUE, !.kid = c, !.issued = now,
                                   !.pc = IF promiseManager THEN "await" ELSE "keys"]]
            /\ nkids' = nkids + 1
       ELSE /\ proc' = [proc EXCEPT ![p] = Poll(r, returnFalse)]
            /\ UNCHANGED nkids
    /\ UNCHANGED <<managerVars, equivVars, screenshotVars, storageVars, messageVars, selectVars, promiseManager, now, page, clicks, appended, envLeft, hist>>

setWhenSettable_sendKeys(p) ==
    LET r == proc[p] IN
    /\ r.kind = "SS" /\ r.pc = "keys" /\ Answered(p)
    /\ IF r.h /\ enabled
       THEN /\ fieldVal' = Typed(fieldVal, TypedValue)
            /\ appended' = (appended \/ fieldVal # <<>>)
            /\ proc' = [proc EXCEPT ![p] = [r EXCEPT !.pc = "getv", !.issued = now]]
       ELSE /\ UNCHANGED <<fieldVal, appended>>
            /\ proc' = [proc EXCEPT ![p] = Poll(r, returnFalse)]
    /\ UNCHANGED <<managerVars, equivVars, screenshotVars, storageVars, messageVars, selectVars, promiseManager, now, present, displayed, clickable, enabled,
                   checked, maxlength, nkids, clicks, envLeft, hist>>

setWhenSettable_getAttribute(p) ==
    LET r == proc[p] IN
    /\ r.kind = "SS" /\ r.pc = "getv" /\ Answered(p)
    /\ proc' = [proc EXCEPT ![p] =
          IF r.h THEN Poll(r, fieldVal = TypedValue) ELSE Settle(r, "error")]
    /\ UNCHANGED <<managerVars, equivVars, screenshotVars, storageVars, messageVars, selectVars, promiseManager, now, page, nkids, clicks, appended, envLeft, hist>>

(* -------------------------------- selectOption ------------------------ *)
\* XPath contains( text, sub )
Contains(text, sub) ==
    \E i \in 1..(Len(text) - Len(sub) + 1) : SubSeq(text, i, i + Len(sub) - 1) = sub

FindOption_First(opts, text) == IF Len(opts) = 0 THEN 0 ELSE 1

\* select.findElement( By.xpath( './/option[contains(text(),"...")]' ) ): the
\* first option in document order the XPath matches (0: none, the promise rejects)
FindOption(opts, text) ==
    LET hits == {i \in 1..Len(opts) : Contains(opts[i], text)}
    IN  IF hits = {} THEN 0 ELSE CHOOSE i \in hits : \A j \in hits : i <= j

\* the promise of selectOption resolves with the value of the handler that ran
Resolve(r, v) ==
    [r EXCEPT !.pc = "done", !.res = IF v THEN "true" ELSE "false", !.val = v,
              !.doneAt = now]

OptionClicked_AlwaysTrue(accepted) == returnTrue

\* opt.click().then( returnTrue, returnFalse )
OptionClicked(accepted) == Then(accepted, returnTrue, returnFalse)

selectOption(p) ==
    /\ p = 1 /\ proc[p].kind = "SEL" /\ proc[p].pc = "idle"
    /\ proc' = [proc EXCEPT ![p] = [@ EXCEPT !.pc = "find0", !.start = now, !.issued = now]]
    /\ UNCHANGED <<managerVars, equivVars, screenshotVars, storageVars, messageVars, selectVars, promiseManager, now, page, nkids, clicks, appended, envLeft, hist>>

selectOption_findElement(p) ==
    LET r == proc[p] IN
    /\ r.kind = "SEL" /\ r.pc = "find0" /\ Answered(p)
    /\ proc' = [proc EXCEPT ![p] =
          IF present
          THEN [r EXCEPT !.pc = "selclick", !.h = TRUE, !.f = "found", !.issued = now]
          ELSE Resolve([r EXCEPT !.f = "rejected"], returnFalse)]
    /\ UNCHANGED <<managerVars, equivVars, screenshotVars, storageVars, messageVars, selectVars, promiseManager, now, page, nkids, clicks, appended, envLeft, hist>>

selectOption_click(p) ==
    LET r == proc[p] IN
    /\ r.kind = "SEL" /\ r.pc = "selclick" /\ Answered(p)
    /\ proc' = [proc EXCEPT ![p] =
          IF r.h /\ clickable
          THEN [r EXCEPT !.pc = "optfind", !.issued = now]
          ELSE Resolve(r, returnFalse)]
    /\ UNCHANGED <<managerVars, equivVars, screenshotVars, storageVars, messageVars, selectVars, promiseManager, now, page, nkids, clicks, appended, envLeft, hist>>

selectOption_findOption(p) ==
    LET r == proc[p]
        o == FindOption(dropdown, optionText) IN
    /\ r.kind = "SEL" /\ r.pc = "optfind" /\ Answered(p)
    /\ IF r.h /\ o # 0
       THEN /\ opt' = o
            /\ proc' = [proc EXCEPT ![p] = [r EXCEPT !.pc = "optclick", !.issued = now]]
       ELSE /\ UNCHANGED opt
            /\ proc' = [proc EXCEPT ![p] = Resolve(r, returnFalse)]
    /\ UNCHANGED <<managerVars, equivVars, screenshotVars, storageVars, messageVars, dropdown, optionText, selected, optClicked, promiseManager, now,
                   page, nkids, clicks, appended, envLeft, hist>>

selectOption_clickOption(p) ==
    LET r == proc[p] IN
    /\ r.kind = "SEL" /\ r.pc = "optclick" /\ Answered(p)
    /\ IF r.h /\ clickable
       THEN /\ selected' = opt
            /\ optClicked' = optClicked \cup {opt}
       ELSE UNCHANGED <<selected, optClicked>>
    /\ proc' = [proc EXCEPT ![p] = Resolve(r, OptionClicked(r.h /\ clickable))]
    /\ UNCHANGED <<managerVars, equivVars, screenshotVars, storageVars, messageVars, dropdown, optionText, opt, promiseManager, now, page, nkids,
                   clicks, appended, envLeft, hist>>

(* ------------------------- driver.wait polls again -------------------- *)
pollCondition(p) ==
    LET r == proc[p] IN
    /\ r.kind # "none" /\ r.pc = "sleep"
    /\ proc' = [proc EXCEPT ![p] = [r EXCEPT !.pc = "find", !.h = FALSE, !.issued = now,
                                             !.att = now]]
    /\ UNCHANGED <<managerVars, equivVars, screenshotVars, storageVars, messageVars, selectVars, promiseManager, now, page, nkids, clicks, appended, envLeft, hist>>

(* ---------------------- setWhenSettable: the timeout message ---------- *)
\* the selectors, the values and the secureValue options a caller passes
Selectors == {[using |-> "css selector", value |-> "input[name=password]"],
              [using |-> "id", value |-> "pin"],
              [using |-> "xpath", value |-> "//input"]}

SecretValues == {"hunter2", "s3cret"}

SecureValues == {"true", "false", "undefined", "'yes'"}

\* how long driver.wait ran when it gave up, in ms
Elapsed == {defaultWaitMs, defaultWaitMs + 12}

\* no call
NoArgs == [selector |-> [using |-> "none", value |-> "none"], value |-> <<"none", "none">>,
           secureValue |-> "undefined", elapsed |-> 0]

LogValue_Plain(value, secureValue) == value

\* setWhenSettable: const logValue
LogValue(value, secureValue) ==
    IF secureValue = "true" THEN "*********" ELSE value

\* the message of the error driver.wait rejects with: the message setWhenSettable
\* passes, and what selenium appends to it
TimeoutMessage(selector, value, secureValue, elapsed) ==
    <<"Timed out waiting for element with ", selector.using, " of '", selector.value,
      "' to be settable to: '", LogValue(value, secureValue), "'",
      "\nWait timed out after ", ToString(elapsed), "ms">>

\* the two calls are made
setWhenSettable_twice(selector, value1, value2, secureValue) ==
    /\ messageArgs = NoArgs
    /\ messageArgs' = [NoArgs EXCEPT !.selector = selector, !.value = <<value1, value2>>,
                                     !.secureValue = secureValue]
    /\ UNCHANGED <<managerVars, equivVars, screenshotVars, storageVars, selectVars, promiseManager, now, page, proc,
                   nkids, clicks, appended, envLeft, hist, messages>>

\* the two calls time out, after the same time
setWhenSettable_timeout(elapsed) ==
    /\ messageArgs # NoArgs
    /\ messages = <<>>
    /\ messageArgs' = [messageArgs EXCEPT !.elapsed = elapsed]
    /\ messages' = <<TimeoutMessage(messageArgs.selector, messageArgs.value[1],
                                    messageArgs.secureValue, elapsed),
                     TimeoutMessage(messageArgs.selector, messageArgs.value[2],
                                    messageArgs.secureValue, elapsed)>>
    /\ UNCHANGED <<managerVars, equivVars, screenshotVars, storageVars, selectVars, promiseManager, now, page, proc,
                   nkids, clicks, appended, envLeft, hist>>

(* ------------------------- cookies and localStorage ------------------- *)
\* the URLs a page may have
Urls == {"http://localhost/", "https://data.example/", "data:,", "data:text/html,hi",
         "about:blank"}

CookieNames == {"hello", "sid"}

StorageKeys == {"hello", "token"}

\* url.startsWith( 'data:' )
StartsWithData(u) == u \in {"data:,", "data:text/html,hi"}

ShouldClear_Never(u) == FALSE

ShouldClear_Always(u) == TRUE

\* deleteLocalStorage: the condition under which it clears
ShouldClear(u) == StartsWithData(u) = FALSE /\ u # "about:blank"

\* clearCookiesAndDeleteLocalStorage has not been called
NoClear == [pc |-> "idle", returned |-> "pending", cookiesCmd |-> "none",
            urlCmd |-> "none", scriptCmd |-> "none"]

\* clearCookiesAndDeleteLocalStorage( driver ): deleteAllCookies is issued, then
\* deleteLocalStorage issues getCurrentUrl and returns nothing, which the
\* function returns in turn
clearCookiesAndDeleteLocalStorage ==
    /\ clearCall.pc = "idle"
    /\ clearCall' = [clearCall EXCEPT !.pc = "called", !.returned = "undefined",
                                      !.cookiesCmd = "issued", !.urlCmd = "issued"]
    /\ UNCHANGED <<managerVars, equivVars, screenshotVars, messageVars, selectVars, promiseManager, now, page, proc, nkids,
                   clicks, appended, envLeft, hist, url, cookies, localStorage>>

\* deleteAllCookies is answered
clearCookies_deleteAllCookies ==
    /\ clearCall.cookiesCmd = "issued"
    /\ cookies' = {}
    /\ clearCall' = [clearCall EXCEPT !.cookiesCmd = "done"]
    /\ UNCHANGED <<managerVars, equivVars, screenshotVars, messageVars, selectVars, promiseManager, now, page, proc, nkids,
                   clicks, appended, envLeft, hist, url, localStorage>>

\* getCurrentUrl is answered and its callback runs: executeScript is issued or not
deleteLocalStorage_getCurrentUrl ==
    /\ clearCall.urlCmd = "issued"
    /\ promiseManager => clearCall.cookiesCmd = "done"
    /\ clearCall' = [clearCall EXCEPT !.urlCmd = "done",
                                      !.scriptCmd = IF ShouldClear(url) THEN "issued"
                                                    ELSE "skipped"]
    /\ UNCHANGED <<managerVars, equivVars, screenshotVars, messageVars, selectVars, promiseManager, now, page, proc, nkids,
                   clicks, appended, envLeft, hist, url, cookies, localStorage>>

\* executeScript( 'window.localStorage.clear();' ) is answered
deleteLocalStorage_executeScript ==
    /\ clearCall.scriptCmd = "issued"
    /\ localStorage' = {}
    /\ clearCall' = [clearCall EXCEPT !.scriptCmd = "done"]
    /\ UNCHANGED <<managerVars, equivVars, screenshotVars, messageVars, selectVars, promiseManager, now, page, proc, nkids,
                   clicks, appended, envLeft, hist, url, cookies>>

(* ------------------------------ time, the page ------------------------ *)
Tick ==
    /\ \E p \in ProcIds : Active(p)
    /\ \A p \in ProcIds :
          /\ proc[p].pc \in CommandPcs => now - proc[p].issued < MaxLatency
          /\ proc[p].pc = "sleep" => now - proc[p].issued < PollInterval
    /\ now' = now + 1
    /\ UNCHANGED <<managerVars, equivVars, screenshotVars, storageVars, messageVars, selectVars, promiseManager, page, proc, nkids, clicks, appended, envLeft, hist>>

MainKind == proc[1].kind

\* the history of the helper's condition after the page changed
Track(pres, clk, en) ==
    LET g  == GoodOf(MainKind, present, clickable, enabled)
        g2 == GoodOf(MainKind, pres, clk, en) IN
    /\ since' = IF g2 THEN (IF g THEN since ELSE now) ELSE -1
    /\ wasGood' = (wasGood \/ g2)

PageMayChange ==
    /\ envLeft > 0
    /\ \E p \in ProcIds : Active(p)
    /\ envLeft' = envLeft - 1

\* the element is added to the document
Attach ==
    /\ PageMayChange /\ ~present
    /\ present' = TRUE
    /\ Track(TRUE, clickable, enabled)
    /\ UNCHANGED <<managerVars, equivVars, screenshotVars, storageVars, messageVars, selectVars, promiseManager, now, displayed, clickable, enabled, checked,
                   fieldVal, maxlength, proc, nkids, clicks, appended>>

\* the element is removed: the handles to it go stale
Detach ==
    /\ PageMayChange /\ present
    /\ present' = FALSE
    /\ proc' = [p \in ProcIds |-> [proc[p] EXCEPT !.h = FALSE]]
    /\ Track(FALSE, clickable, enabled)
    /\ UNCHANGED <<managerVars, equivVars, screenshotVars, storageVars, messageVars, selectVars, promiseManager, now, displayed, clickable, enabled, checked,
                   fieldVal, maxlength, nkids, clicks, appended>>

ToggleDisplayed ==
    /\ PageMayChange /\ MainKind \in {"WP", "WN", "EV"}
    /\ displayed' = ~displayed
    /\ Track(present, clickable, enabled)
    /\ UNCHANGED <<managerVars, equivVars, screenshotVars, storageVars, messageVars, selectVars, promiseManager, now, present, clickable, enabled, checked,
                   fieldVal, maxlength, proc, nkids, clicks, appended>>

ToggleClickable ==
    /\ PageMayChange /\ MainKind \in {"CW", "SET", "UNSET", "SEL"}
    /\ clickable' = ~clickable
    /\ Track(present, ~clickable, enabled)
    /\ UNCHANGED <<managerVars, equivVars, screenshotVars, storageVars, messageVars, selectVars, promiseManager, now, present, displayed, enabled, checked,
                   fieldVal, maxlength, proc, nkids, clicks, appended>>

ToggleEnabled ==
    /\ PageMayChange /\ MainKind \in {"FC", "SS"}
    /\ enabled' = ~enabled
    /\ Track(present, clickable, ~enabled)
    /\ UNCHANGED <<managerVars, equivVars, screenshotVars, storageVars, messageVars, selectVars, promiseManager, now, present, displayed, clickable, checked,
                   fieldVal, maxlength, proc, nkids, clicks, appended>>

(* ------------------------------- Manager ------------------------------ *)
implicitWait == 2000

pageLoadWaitMs == 60000

\* the value of a property that an object does not have
Undefined == "<undefined>"

\* String.prototype.toLowerCase on the strings a caller passes
ToLowerCase(str) ==
    CASE str \in {"chrome", "Chrome"} -> "chrome"
      [] str \in {"firefox", "Firefox"} -> "firefox"
      [] str \in {"direct", "Direct"} -> "direct"
      [] str \in {"system", "SYSTEM"} -> "system"
      [] str \in {"mobile", "Mobile"} -> "mobile"
      [] str \in {"tablet", "Tablet", "TABLET"} -> "tablet"
      [] str \in {"desktop", "Desktop"} -> "desktop"
      [] str \in {"laptop", "Laptop"} -> "laptop"
      [] OTHER -> str

\* an object with the one property key, or without it
Pick(key, values) == {<<>>} \cup {key :> v : v \in values}

\* Object.assign( target, source )
Assign(target, source) == source @@ target

\* obj[ key ] as a string
Get(obj, key) == IF key \in DOMAIN obj THEN obj[key] ELSE Undefined

\* obj[ key ] as a condition
Truthy(obj, key) == key \in DOMAIN obj /\ obj[key]

\* the browser argument and the config object a caller passes to new Manager
Browsers == {"chrome", "Firefox", "safari"}

Configs ==
    {Assign(Assign(Assign(a, b), c), d) :
        a \in Pick("useSauce", BOOLEAN)
               \cup {Assign("useSauce" :> TRUE, "sauceConfig" :> "safari")},
        b \in Pick("resizeBrowserWindow", BOOLEAN),
        c \in Pick("proxy", {"SYSTEM", "manual"}),
        d \in Pick("screenSize", {"Mobile", "huge"})}

EnvValues == {Undefined, "", "TABLET", "wide"}

\* getConfigScreenSize()
getConfigScreenSize(config, env) ==
    LET configured == Get(config, "screenSize")
        screenSize == IF configured \notin {Undefined, ""} THEN configured ELSE env
    IN  IF screenSize = Undefined \/ screenSize = "" THEN "desktop"
        ELSE ToLowerCase(screenSize)

NoSize == <<0, 0>>

WindowSize_DefaultDesktop(screenSize) ==
    CASE ToLowerCase(screenSize) = "mobile" -> <<400, 1000>>
      [] ToLowerCase(screenSize) = "tablet" -> <<1024, 1000>>
      [] ToLowerCase(screenSize) = "laptop" -> <<1400, 790>>
      [] OTHER -> <<1440, 1000>>

\* resizeBrowser( screenSize ): the size it sets, NoSize where it throws
WindowSize(screenSize) ==
    CASE ToLowerCase(screenSize) = "mobile" -> <<400, 1000>>
      [] ToLowerCase(screenSize) = "tablet" -> <<1024, 1000>>
      [] ToLowerCase(screenSize) = "desktop" -> <<1440, 1000>>
      [] ToLowerCase(screenSize) = "laptop" -> <<1400, 790>>
      [] OTHER -> NoSize

getProxyType_DefaultDirect(config) ==
    IF ToLowerCase(Get(config, "proxy")) = "system" THEN "system" ELSE "direct"

\* getProxyType(): the proxy it returns, "throw" for its default case
getProxyType(config) ==
    CASE ToLowerCase(Get(config, "proxy")) = "direct" -> "direct"
      [] ToLowerCase(Get(config, "proxy")) = "system" -> "system"
      [] OTHER -> "throw"

BrowserCase_DefaultChrome(browserName) ==
    IF browserName = "firefox" THEN "firefox" ELSE "chrome"

\* setupDriver: the case of switch ( browserName )
BrowserCase(browserName) ==
    CASE browserName = "chrome" -> "chrome"
      [] browserName = "firefox" -> "firefox"
      [] OTHER -> "default"

\* createChromeOptions(): the arguments it adds to the Chrome options
createChromeOptions(config) ==
    {"--no-sandbox"} \cup (IF Truthy(config, "useCustomUA") THEN {"user-agent="} ELSE {})

NoManager == [browser |-> Undefined, browserName |-> Undefined, driver |-> "none",
              error |-> "none", size |-> Undefined, args |-> {}]

\* the calls of quitBrowser
QuitIds == 1..2

\* the waitForMs a caller passes to quitBrowser (0 is its default)
WaitForMs == {0, 5000, 10000}

\* quitBrowser has not been called
NoQuit == [pc |-> "idle", wait |-> 0, start |-> 0, issued |-> 0, res |-> "pending"]

\* resizeBrowser has not been called
NoResize == [arg |-> Undefined, error |-> "none"]

\* this.config of the i-th Manager: the object Object.assign returned, which is
\* the module's defaultArgs itself
ConfigOf(i) == defaultArgs

\* the first half of setupDriver: the driver it builds, or the error it throws
BuildDriver(browser, config) ==
    IF Truthy(config, "useSauce")
    THEN IF "sauceConfig" \in DOMAIN config
         THEN [driver |-> "sauce", browserName |-> config["sauceConfig"], error |-> "none",
               args |-> {}]
         ELSE [driver |-> "none", browserName |-> Undefined, error |-> "TypeError",
               args |-> {}]
    ELSE IF BrowserCase(ToLowerCase(browser)) = "default"
         THEN [driver |-> "none", browserName |-> Undefined, error |-> "UnsupportedBrowser",
               args |-> {}]
         ELSE IF getProxyType(config) = "throw"
              THEN [driver |-> "none", browserName |-> Undefined, error |-> "UnknownProxy",
                    args |-> {}]
              ELSE [driver |-> BrowserCase(ToLowerCase(browser)),
                    browserName |-> ToLowerCase(browser), error |-> "none",
                    args |-> IF BrowserCase(ToLowerCase(browser)) = "chrome"
                             THEN createChromeOptions(config) ELSE {}]

SetupCommands_ResizeFirst(config, size) ==
    LET timeouts == <<<<"implicitlyWait", implicitWait, 0>>,
                      <<"pageLoadTimeout", pageLoadWaitMs, 0>>>>
    IN  IF Truthy(config, "resizeBrowserWindow") /\ WindowSize(size) # NoSize
        THEN <<<<"setSize", WindowSize(size)[1], WindowSize(size)[2]>>>> \o timeouts
        ELSE timeouts

\* the second half of setupDriver: the commands it issues to the driver, in order
SetupCommands(config, size) ==
    LET timeouts == <<<<"implicitlyWait", implicitWait, 0>>,
                      <<"pageLoadTimeout", pageLoadWaitMs, 0>>>>
    IN  IF Truthy(config, "resizeBrowserWindow") /\ WindowSize(size) # NoSize
        THEN Append(timeouts, <<"setSize", WindowSize(size)[1], WindowSize(size)[2]>>)
        ELSE timeouts

\* new Manager( browser, config ): the constructor and the setupDriver it calls
Manager(browser, config) ==
    LET cfg   == Assign(defaultArgs, config)
        built == BuildDriver(browser, cfg)
        size  == getConfigScreenSize(cfg, BROWSERSIZE)
        resizeWindow == Truthy(cfg, "resizeBrowserWindow")
    IN  /\ nManagers < MaxManagers
        /\ nManagers' = nManagers + 1
        /\ defaultArgs' = cfg
        /\ resize' = NoResize
        /\ setSizeQueue' = <<>>
        /\ quitCall' = [c \in QuitIds |-> NoQuit]
        /\ quits' = 0
        /\ IF built.driver = "none"
           THEN /\ manager' = [browser |-> browser, browserName |-> built.browserName,
                               driver |-> "none", error |-> built.error, size |-> size,
                               args |-> {}]
                /\ commands' = <<>>
                /\ UNCHANGED <<sessions, window>>
           ELSE /\ sessions' = sessions + 1
                /\ manager' = [browser |-> browser, browserName |-> built.browserName,
                               driver |-> built.driver, size |-> size,
                               args |-> built.args,
                               error |-> IF resizeWindow /\ WindowSize(size) = NoSize
                                         THEN "UnsupportedScreenSize" ELSE "none"]
                /\ commands' = SetupCommands(cfg, size)
                /\ window' = IF resizeWindow /\ WindowSize(size) # NoSize
                             THEN WindowSize(size) ELSE <<800, 600>>
        /\ UNCHANGED <<BROWSERSIZE, sessionVars, helperVars>>

\* the environment variable BROWSERSIZE is set, changed or unset
setEnv(value) ==
    /\ value # BROWSERSIZE
    /\ BROWSERSIZE' = value
    /\ UNCHANGED <<defaultArgs, manager, nManagers, sessions, commands, window,
                   sessionVars, resizeVars, quitVars, helperVars>>

\* getScreenSizeAsObject( screenSize ): <<width, height>>, NoSize where it throws
getScreenSizeAsObject(screenSize) ==
    CASE screenSize = "mobile" -> <<400, 1000>>
      [] screenSize = "tablet" -> <<1024, 1000>>
      [] screenSize = "desktop" -> <<1440, 1000>>
      [] screenSize = "laptop" -> <<1400, 790>>
      [] OTHER -> NoSize

\* the screenSize a caller passes to resizeBrowser
ResizeArgs == {"mobile", "Tablet", "laptop", "huge"}

\* resizeBrowser( screenSize ): it schedules window().setSize, or throws
resizeBrowser(screenSize) ==
    /\ manager.driver # "none"
    /\ Len(setSizeQueue) < MaxQueued
    /\ resize.arg # screenSize \/ WindowSize(screenSize) # NoSize
    /\ IF WindowSize(screenSize) = NoSize
       THEN /\ resize' = [arg |-> screenSize, error |-> "UnsupportedScreenSize"]
            /\ UNCHANGED setSizeQueue
       ELSE /\ resize' = [arg |-> screenSize, error |-> "none"]
            /\ setSizeQueue' = Append(setSizeQueue, WindowSize(screenSize))
    /\ UNCHANGED <<defaultArgs, BROWSERSIZE, manager, nManagers, sessions, commands,
                   window, sessionVars, quitVars, helperVars>>

setSize_WidthOnly ==
    /\ setSizeQueue # <<>>
    /\ window' = <<Head(setSizeQueue)[1], window[2]>>
    /\ setSizeQueue' = Tail(setSizeQueue)
    /\ UNCHANGED <<defaultArgs, BROWSERSIZE, manager, nManagers, sessions, commands,
                   resize, sessionVars, quitVars, helperVars>>

\* the driver runs the oldest window().setSize command
setSize ==
    /\ setSizeQueue # <<>>
    /\ window' = Head(setSizeQueue)
    /\ setSizeQueue' = Tail(setSizeQueue)
    /\ UNCHANGED <<defaultArgs, BROWSERSIZE, manager, nManagers, sessions, commands,
                   resize, sessionVars, quitVars, helperVars>>

\* quitBrowser( waitForMs ): driver.sleep( waitForMs ) is scheduled
quitBrowser(c, waitForMs) ==
    /\ manager.driver # "none"
    /\ quitCall[c].pc = "idle"
    /\ \A b \in QuitIds : b < c => quitCall[b].pc # "idle"
    /\ quitCall' = [quitCall EXCEPT ![c] = [NoQuit EXCEPT !.pc = "sleep",
                                            !.wait = waitForMs \div TickMs,
                                            !.start = now]]
    /\ UNCHANGED <<defaultArgs, BROWSERSIZE, manager, nManagers, sessions, commands,
                   window, sessionVars, resizeVars, quits, helperVars>>

SleepOver_AtOnce(c) == TRUE

\* driver.sleep( waitForMs ) resolves no sooner than waitForMs after it started
SleepOver(c) == now - quitCall[c].start >= quitCall[c].wait

\* the callback of sleep().then: driver.quit() is issued
quitBrowser_then(c) ==
    /\ quitCall[c].pc = "sleep"
    /\ SleepOver(c)
    /\ quitCall' = [quitCall EXCEPT ![c].pc = "quit", ![c].issued = now]
    /\ UNCHANGED <<defaultArgs, BROWSERSIZE, manager, nManagers, sessions, commands,
                   window, sessionVars, resizeVars, quits, helperVars>>

\* driver.quit() is answered: the session ends, or it had ended already and the
\* command fails
quitBrowser_quit(c) ==
    /\ quitCall[c].pc = "quit"
    /\ IF quits = 0
       THEN /\ quits' = 1
            /\ quitCall' = [quitCall EXCEPT ![c].pc = "done", ![c].res = "resolved"]
       ELSE /\ quitCall' = [quitCall EXCEPT ![c].pc = "done", ![c].res = "rejected"]
            /\ UNCHANGED quits
    /\ UNCHANGED <<defaultArgs, BROWSERSIZE, manager, nManagers, sessions, commands,
                   window, sessionVars, resizeVars, helperVars>>

\* time passes while a call of quitBrowser is under way
Elapse ==
    /\ now < MaxTime
    /\ \E c \in QuitIds : quitCall[c].pc \in {"sleep", "quit"}
    /\ now' = now + 1
    /\ UNCHANGED <<managerVars, helperCalls>>

(* ------------------------------ takeScreenshot ------------------------ *)
\* currentTest: undefined, or a test with its title and its state
NoTest == [title |-> Undefined, state |-> Undefined]

Tests == {[title |-> "Can log in", state |-> "passed"],
          [title |-> "Shows error!", state |-> "failed"]}

\* new Date().toJSON()
Dates == {"2017-03-01T10:20:30.000Z", "2017-03-01T10:20:31.500Z"}

\* slug( title )
slug(title) ==
    CASE title = "Can log in" -> "can-log-in"
      [] title = "Shows error!" -> "shows-error"
      [] OTHER -> title

\* datetime.replace( /:/g, '-' )
ReplaceColons(datetime) ==
    CASE datetime = "2017-03-01T10:20:30.000Z" -> "2017-03-01T10-20-30.000Z"
      [] datetime = "2017-03-01T10:20:31.500Z" -> "2017-03-01T10-20-31.500Z"
      [] OTHER -> datetime

\* takeScreenshot: const filename
Filename(state, screenSize, title, datetime) ==
    <<state, "-", screenSize, "-", slug(title), "-", ReplaceColons(datetime), ".png">>

\* takeScreenshot has not been called
NoShot == [pc |-> "idle", test |-> NoTest, filename |-> <<>>, mgr |-> 0, issued |-> 0,
           urlCmd |-> "none", shotCmd |-> "none", res |-> "pending"]

\* takeScreenshot( manager, currentTest ): it returns at once without a test, and
\* with one computes the file name and issues getCurrentUrl and takeScreenshot
takeScreenshot(currentTest, datetime) ==
    /\ shotCall.pc = "idle"
    /\ IF currentTest = NoTest
       THEN /\ shotCall' = [shotCall EXCEPT !.pc = "returned", !.res = "undefined"]
            /\ UNCHANGED commands
       ELSE /\ manager.driver # "none"
            /\ shotCall' = [shotCall EXCEPT
                   !.pc = "called", !.test = currentTest, !.mgr = nManagers,
                   !.filename = Filename(currentTest.state,
                                         getConfigScreenSize(ConfigOf(nManagers), BROWSERSIZE),
                                         currentTest.title, datetime),
                   !.issued = 2, !.urlCmd = "issued", !.shotCmd = "issued"]
            /\ commands' = commands \o <<<<"getCurrentUrl", 0, 0>>, <<"takeScreenshot", 0, 0>>>>
    /\ UNCHANGED <<defaultArgs, BROWSERSIZE, manager, nManagers, sessions, window,
                   sessionVars, resizeVars, quitVars, files, equivVars, storageVars, messageVars,
                   selectVars, promiseManager, now, page, proc, nkids, clicks, appended,
                   envLeft, hist>>

\* getCurrentUrl is answered: the URL is logged
takeScreenshot_getCurrentUrl ==
    /\ shotCall.urlCmd = "issued"
    /\ shotCall' = [shotCall EXCEPT !.urlCmd = "done"]
    /\ UNCHANGED <<managerVars, equivVars, files, storageVars, messageVars, selectVars, promiseManager,
                   now, page, proc, nkids, clicks, appended, envLeft, hist>>

\* path.resolve( dir, filename ): it throws when dir is not a string
PathResolves(dir) == dir # Undefined

\* takeScreenshot is answered: the callback resolves the path and writes the image
takeScreenshot_writeImage ==
    /\ shotCall.shotCmd = "issued"
    /\ promiseManager => shotCall.urlCmd = "done"
    /\ IF PathResolves(Get(ConfigOf(shotCall.mgr), "screenshotsDir"))
       THEN /\ files' = files \cup {<<Get(ConfigOf(shotCall.mgr), "screenshotsDir"),
                                       shotCall.filename>>}
            /\ shotCall' = [shotCall EXCEPT !.shotCmd = "done", !.pc = "done",
                                            !.res = "resolved"]
       ELSE /\ shotCall' = [shotCall EXCEPT !.shotCmd = "done", !.pc = "done",
                                            !.res = "TypeError"]
            /\ UNCHANGED files
    /\ UNCHANGED <<managerVars, equivVars, storageVars, messageVars, selectVars, promiseManager,
                   now, page, proc, nkids, clicks, appended, envLeft, hist>>

(* ------------------------------ specification ------------------------- *)
InitManagerVars ==
    /\ defaultArgs = [baseUrl |-> "https://automattic.com", resizeBrowserWindow |-> TRUE,
                      useCustomUA |-> TRUE, proxy |-> "direct"]
    /\ BROWSERSIZE = Undefined
    /\ manager = NoManager
    /\ nManagers = 0
    /\ sessions = 0
    /\ commands = <<>>
    /\ window = <<800, 600>>

InitSessionVars ==
    /\ HEADLESS = Undefined

InitMessageVars ==
    /\ messageArgs = NoArgs
    /\ messages = <<>>

InitScreenshotVars ==
    /\ shotCall = NoShot
    /\ files = {}

InitEquivVars ==
    /\ probes = <<>>
    /\ twin = <<NoProc, NoProc>>

InitStorageVars ==
    /\ url = "http://localhost/"
    /\ cookies = {}
    /\ localStorage = {}
    /\ clearCall = NoClear

InitResizeVars ==
    /\ resize = NoResize
    /\ setSizeQueue = <<>>
    /\ quitCall = [c \in QuitIds |-> NoQuit]
    /\ quits = 0

Init ==
    \E k \in Kinds :
        /\ proc = [p \in ProcIds |-> IF p = 1 THEN [NoProc EXCEPT !.kind = k] ELSE NoProc]
        /\ promiseManager \in BOOLEAN
        /\ now = 0
        /\ present \in BOOLEAN
        /\ displayed \in (IF k \in {"WP", "WN", "EV"} THEN BOOLEAN ELSE {TRUE})
        /\ clickable \in (IF k \in {"CW", "SET", "UNSET", "SEL"} THEN BOOLEAN ELSE {TRUE})
        /\ enabled \in (IF k \in {"FC", "SS"} THEN BOOLEAN ELSE {TRUE})
        /\ checked \in (IF k \in {"SET", "UNSET"} THEN BOOLEAN ELSE {FALSE})
        /\ fieldVal \in (IF k \in {"FC", "SS"} THEN {<<>>, <<"b">>} ELSE {<<>>})
        /\ maxlength \in (IF k = "SS" THEN {1, MaxField} ELSE {MaxField})
        /\ nkids = 0
        /\ clicks = 0
        /\ appended = FALSE
        /\ envLeft = MaxEnvChanges
        /\ since = (IF GoodOf(k, present, clickable, enabled) THEN 0 ELSE -1)
        /\ wasGood = GoodOf(k, present, clickable, enabled)
        /\ dropdown \in (IF k = "SEL"
                         THEN {<<a, b>> : a, b \in OptionTexts} \ {<<a, a>> : a \in OptionTexts}
                         ELSE {<<>>})
        /\ optionText \in (IF k = "SEL" THEN OptionTexts ELSE {<<>>})
        /\ opt = 0
        /\ selected = 0
        /\ optClicked = {}
        /\ InitManagerVars
        /\ InitSessionVars
        /\ InitResizeVars
        /\ InitStorageVars
        /\ InitMessageVars
        /\ InitScreenshotVars
        /\ InitEquivVars

Next ==
    \/ \E p \in ProcIds, w \in WaitChoices : waitTillPresentAndDisplayed(p, w)
    \/ \E p \in ProcIds : waitTillPresentAndDisplayed_findElement(p)
    \/ \E p \in ProcIds : waitTillPresentAndDisplayed_isDisplayed(p)
    \/ \E p \in ProcIds, w \in WaitChoices : isEventuallyPresentAndDisplayed(p, w)
    \/ \E p \in ProcIds : isEventuallyPresentAndDisplayed_findElement(p)
    \/ \E p \in ProcIds : isEventuallyPresentAndDisplayed_isDisplayed(p)
    \/ \E p \in ProcIds, w \in WaitChoices : waitTillNotPresent(p, w)
    \/ \E p \in ProcIds : waitTillNotPresent_findElement(p)
    \/ \E p \in ProcIds : waitTillNotPresent_isDisplayed(p)
    \/ \E p \in ProcIds, w \in WaitChoices : clickWhenClickable(p, w)
    \/ \E p \in ProcIds : clickWhenClickable_findElement(p)
    \/ \E p \in ProcIds : clickWhenClickable_click(p)
    \/ \E p \in ProcIds : setCheckbox(p)
    \/ \E p \in ProcIds : setCheckbox_findElement(p)
    \/ \E p \in ProcIds : setCheckbox_getAttribute(p)
    \/ \E p \in ProcIds : unsetCheckbox(p)
    \/ \E p \in ProcIds : unsetCheckbox_findElement(p)
    \/ \E p \in ProcIds : unsetCheckbox_getAttribute(p)
    \/ \E p \in ProcIds, w \in WaitChoices : waitForFieldClearable(p, w)
    \/ \E p \in ProcIds : waitForFieldClearable_findElement(p)
    \/ \E p \in ProcIds : waitForFieldClearable_clear(p)
    \/ \E p \in ProcIds : waitForFieldClearable_getAttribute(p)
    \/ \E p \in ProcIds, w \in WaitChoices : setWhenSettable(p, w)
    \/ \E p \in ProcIds : setWhenSettable_findElement(p)
    \/ \E p \in ProcIds : setWhenSettable_sendKeys(p)
    \/ \E p \in ProcIds : setWhenSettable_getAttribute(p)
    \/ \E p \in ProcIds : selectOption(p)
    \/ \E p \in ProcIds : selectOption_findElement(p)
    \/ \E p \in ProcIds : selectOption_click(p)
    \/ \E p \in ProcIds : selectOption_findOption(p)
    \/ \E p \in ProcIds : selectOption_clickOption(p)
    \/ \E p \in ProcIds : pollCondition(p)
    \/ Tick
    \/ Attach
    \/ Detach
    \/ ToggleDisplayed
    \/ ToggleClickable
    \/ ToggleEnabled

Spec == Init /\ [][Next]_vars

\* no helper is called
NoHelper ==
    /\ proc = [p \in ProcIds |-> NoProc]
    /\ now = 0
    /\ present = TRUE /\ displayed = TRUE /\ clickable = TRUE /\ enabled = TRUE
    /\ checked = FALSE /\ fieldVal = <<>> /\ maxlength = MaxField
    /\ nkids = 0 /\ clicks = 0 /\ appended = FALSE /\ envLeft = 0
    /\ since = -1 /\ wasGood = FALSE
    /\ dropdown = <<>> /\ optionText = <<>> /\ opt = 0 /\ selected = 0 /\ optClicked = {}

\* the Manager alone
InitManager ==
    /\ InitManagerVars
    /\ InitSessionVars
    /\ InitResizeVars
    /\ InitStorageVars
    /\ InitMessageVars
    /\ InitScreenshotVars
    /\ InitEquivVars
    /\ promiseManager = TRUE
    /\ NoHelper

NextManager ==
    \/ \E browser \in Browsers, config \in Configs : Manager(browser, config)
    \/ \E value \in EnvValues : setEnv(value)

SpecManager == InitManager /\ [][NextManager]_vars

\* the Manager and its session: the configs that decide how the browser starts
SessionConfigs ==
    {Assign(a, b) :
        a \in Pick("headless", BOOLEAN),
        b \in Pick("resizeBrowserWindow", {FALSE})}

SessionBrowsers == {"chrome", "Firefox"}

InitSession ==
    /\ InitManagerVars
    /\ HEADLESS \in {Undefined, "1"}
    /\ InitResizeVars
    /\ InitStorageVars
    /\ InitMessageVars
    /\ InitScreenshotVars
    /\ InitEquivVars
    /\ promiseManager = TRUE
    /\ NoHelper

NextSession ==
    \/ \E browser \in SessionBrowsers, config \in SessionConfigs : Manager(browser, config)
    \/ \E value \in EnvValues : setEnv(value)
    \/ \E screenSize \in ResizeArgs : resizeBrowser(screenSize)
    \/ setSize

SpecSession == InitSession /\ [][NextSession]_vars

\* the end of a session
NextQuit ==
    \/ \E browser \in SessionBrowsers : Manager(browser, <<>>)
    \/ \E c \in QuitIds, waitForMs \in WaitForMs : quitBrowser(c, waitForMs)
    \/ \E c \in QuitIds : quitBrowser_then(c)
    \/ \E c \in QuitIds : quitBrowser_quit(c)
    \/ Elapse

SpecQuit == InitManager /\ [][NextQuit]_vars

\* clearCookiesAndDeleteLocalStorage alone, on a page with some cookies and keys
InitStorage ==
    /\ InitManagerVars
    /\ InitSessionVars
    /\ InitResizeVars
    /\ InitMessageVars
    /\ InitScreenshotVars
    /\ InitEquivVars
    /\ NoHelper
    /\ promiseManager \in BOOLEAN
    /\ url \in Urls
    /\ cookies \in SUBSET CookieNames
    /\ localStorage \in SUBSET StorageKeys
    /\ clearCall = NoClear

NextStorage ==
    \/ clearCookiesAndDeleteLocalStorage
    \/ clearCookies_deleteAllCookies
    \/ deleteLocalStorage_getCurrentUrl
    \/ deleteLocalStorage_executeScript

SpecStorage == InitStorage /\ [][NextStorage]_vars

\* the message of setWhenSettable's timeout, for two calls side by side
NextMessage ==
    \/ \E selector \in Selectors, value1, value2 \in SecretValues,
          secureValue \in SecureValues :
            setWhenSettable_twice(selector, value1, value2, secureValue)
    \/ \E elapsed \in Elapsed : setWhenSettable_timeout(elapsed)

SpecMessage == InitManager /\ [][NextMessage]_vars

\* takeScreenshot on a Manager, with or without a directory for the screenshots
ScreenshotConfigs ==
    {Assign(a, b) :
        a \in Pick("screenshotsDir", {"/tmp/screenshots"}),
        b \in Pick("screenSize", {"Mobile"})}

InitScreenshot ==
    /\ InitManagerVars
    /\ InitSessionVars
    /\ InitResizeVars
    /\ InitStorageVars
    /\ InitMessageVars
    /\ InitScreenshotVars
    /\ InitEquivVars
    /\ promiseManager \in BOOLEAN
    /\ NoHelper

NextScreenshot ==
    \/ \E browser \in SessionBrowsers, config \in ScreenshotConfigs : Manager(browser, config)
    \/ \E value \in EnvValues : setEnv(value)
    \/ \E currentTest \in Tests \cup {NoTest}, datetime \in Dates :
          takeScreenshot(currentTest, datetime)
    \/ takeScreenshot_getCurrentUrl
    \/ takeScreenshot_writeImage

SpecScreenshot == InitScreenshot /\ [][NextScreenshot]_vars

\* the two waits for an element side by side, on every short sequence of probe
\* outcomes
InitEquiv ==
    /\ InitManagerVars
    /\ InitSessionVars
    /\ InitResizeVars
    /\ InitStorageVars
    /\ InitMessageVars
    /\ InitScreenshotVars
    /\ promiseManager \in BOOLEAN
    /\ NoHelper
    /\ probes \in UNION {[1..n -> ProbeOutcomes] : n \in 1..MaxProbes}
    /\ twin = <<NoProc, NoProc>>

NextEquiv ==
    \/ \E waitMs \in WaitChoices : callBoth(waitMs)
    \/ probeBoth
    \/ probeTick

SpecEquiv == InitEquiv /\ [][NextEquiv]_vars

TypeOK ==
    /\ now \in Nat
    /\ \A p \in ProcIds : proc[p].kind \in Kinds \cup {"none"}
    /\ Len(fieldVal) <= MaxField
    /\ clicks \in 0..2

(* -------------------------------- claims ------------------------------ *)
Called(p) == proc[p].kind # "none" /\ proc[p].pc # "idle"

C2_AsClaimed ==
    \A p \in ProcIds :
        LET r == proc[p] IN
        (p = 1 /\ r.kind \in Pollers /\ Called(p) /\ ~wasGood)
        => /\ r.res \in {"pending", "timeout"}
           /\ r.res = "timeout" => r.doneAt - r.start >= r.wait
           /\ r.att - r.start < r.wait + PollInterval

\* C3, as claimed: waitTillPresentAndDisplayed resolves only after an attempt
\* in which isDisplayed reported true.
C3_AsClaimed ==
    \A p \in ProcIds :
        (proc[p].kind = "WP" /\ proc[p].res = "true") => proc[p].d = "true"

\* C4, as claimed: an attempt of waitTillNotPresent that found no element, or
\* found one that isDisplayed reports hidden, ends the wait successfully.
C4_AsClaimed ==
    \A p \in ProcIds :
        LET r == proc[p] IN
        (r.kind = "WN" /\ (r.f = "rejected" \/ (r.f = "found" /\ r.d = "false")))
        => r.res = "true"

\* C5: for every outcome of findElement and isDisplayed that an attempt of
\* either helper met, exactly one of the two per-attempt predicates is true,
\* and the attempt yielded its helper's one.
C5_ExactNegation ==
    /\ \A f \in {"found", "rejected"} : \A d \in {"true", "false", "rejected"} :
           PresentAndDisplayedAttempt(f, d) # NotPresentAttempt(f, d)
    /\ \A p \in ProcIds :
        LET r == proc[p] IN
        (r.kind \in {"WP", "WN"} /\ (r.f = "rejected" \/ (r.f = "found" /\ r.d # "none")))
        => /\ PresentAndDisplayedAttempt(r.f, r.d) # NotPresentAttempt(r.f, r.d)
           /\ r.val = IF r.kind = "WP" THEN PresentAndDisplayedAttempt(r.f, r.d)
                      ELSE NotPresentAttempt(r.f, r.d)

\* C5 witness: an attempt of waitTillNotPresent met a found, hidden element.
C5_Witness ==
    \E p \in ProcIds :
        proc[p].kind = "WN" /\ proc[p].f = "found" /\ proc[p].d = "false"

\* C6, as claimed: two setCheckbox (or two unsetCheckbox) calls in a row, the
\* second started once the first one's promise has resolved, click the
\* checkbox at most once in total.
C6_AsClaimed ==
    (proc[1].kind \in {"SET", "UNSET"} /\ proc[2].kind = proc[1].kind) => clicks <= 1

\* C7: when setCheckbox's promise has resolved, it has resolved with true and
\* the checkbox is checked: with no click when the call found it checked, with
\* exactly one accepted click when it found it unchecked.
C7_SetCheckboxChecks ==
    \A p \in ProcIds :
        (proc[p].kind = "SET" /\ proc[p].res \notin {"pending", "timeout", "error"})
        => /\ proc[p].res = "true"
           /\ checked
           /\ clicks = IF proc[1].d = "null" THEN 1 ELSE 0

\* C7 witness: setCheckbox found the checkbox unchecked and has resolved.
C7_Witness ==
    proc[1].kind = "SET" /\ proc[1].res = "true" /\ proc[1].d = "null" /\ clicks = 1

\* C8, as claimed: when unsetCheckbox's promise has resolved, it has resolved
\* with true, the checkbox is unchecked and the call has nothing left to do.
C8_AsClaimed ==
    \A p \in ProcIds :
        (proc[p].kind = "UNSET" /\ proc[p].res \notin {"pending", "timeout", "error"})
        => /\ proc[p].res = "true"
           /\ ~checked
           /\ proc[p].pc = "done"

\* C9, as claimed: once setWhenSettable has resolved, the field holds exactly
\* the typed value.
C9_AsClaimed ==
    \A p \in ProcIds :
        (proc[p].kind = "SS" /\ proc[p].res = "true") => fieldVal = TypedValue

\* C10, as claimed: while the sendKeys of an attempt of setWhenSettable is in
\* flight, the clear that attempt started has completed and left the field
\* empty, and no sendKeys was typed behind older text.
C10_AsClaimed ==
    \A p \in ProcIds :
        (proc[p].kind = "SS" /\ proc[p].pc = "keys")
        => proc[proc[p].kid].res = "true" /\ ~appended

\* C11, as claimed: a setWhenSettable whose read-back can never equal the typed
\* value (the field cuts the text at maxlength) keeps retrying and can fail
\* with Timeout only: it never succeeds and never fails with another error.
C11_AsClaimed ==
    (proc[1].kind = "SS" /\ Called(1) /\ maxlength < Len(TypedValue))
    => proc[1].res \in {"pending", "timeout"}

\* C12, as claimed: whatever remote call fails during an attempt, a polling
\* helper fails with Timeout or not at all.
C12_AsClaimed ==
    \A p \in ProcIds :
        (proc[p].kind \in Pollers /\ proc[p].par = 0) => proc[p].res # "error"

\* C13, as claimed: selectOption given a text that no option of the dropdown
\* has, on a dropdown that is there and accepts the click all along, ends with
\* a Timeout error.
C13_AsClaimed ==
    (/\ proc[1].kind = "SEL" /\ proc[1].pc = "done"
     /\ FindOption(dropdown, optionText) = 0
     /\ present /\ clickable /\ envLeft = MaxEnvChanges)
    => proc[1].res = "timeout"

\* C13, amended: selectOption given a text that no option of the dropdown
\* contains does not poll and does not fail: once it has ended, its promise has
\* resolved with false, and no option was clicked or selected.
C13_ResolvesFalse ==
    (/\ proc[1].kind = "SEL" /\ proc[1].pc = "done"
     /\ \A i \in 1..Len(dropdown) : ~Contains(dropdown[i], optionText))
    => (proc[1].res = "false" /\ optClicked = {} /\ selected = 0 /\ opt = 0)

\* C13 witness: the dropdown was found and accepted its click, no option
\* contains the text, and selectOption has ended.
C13_Witness ==
    /\ proc[1].kind = "SEL" /\ proc[1].pc = "done" /\ proc[1].f = "found"
    /\ \A i \in 1..Len(dropdown) : ~Contains(dropdown[i], optionText)
    /\ present /\ clickable /\ envLeft = MaxEnvChanges

\* C14: the promise of selectOption is never rejected; once settled it holds
\* true exactly when the option was found and accepted the click, and false in
\* every other case (dropdown not found, dropdown click failed, option not
\* found, option click failed).
C14_NeverRejects ==
    proc[1].kind = "SEL"
    => /\ proc[1].res \in {"pending", "true", "false"}
       /\ proc[1].pc = "done" => proc[1].res # "pending"
       /\ proc[1].res = "true" => (opt # 0 /\ optClicked = {opt})
       /\ proc[1].res = "false" => optClicked = {}

\* C14 witness: the option was found, its click failed, and selectOption
\* resolved with false.
C14_Witness ==
    proc[1].kind = "SEL" /\ proc[1].res = "false" /\ opt # 0

\* C15, as claimed: when selectOption resolved with true and the dropdown has
\* an option whose text is the given text, that option and no other was
\* clicked and is the selected one, also when another option's text contains
\* the given text.
C15_AsClaimed ==
    LET exact == {i \in 1..Len(dropdown) : dropdown[i] = optionText} IN
    (proc[1].kind = "SEL" /\ proc[1].res = "true" /\ exact # {})
    => (optClicked = exact /\ selected \in exact)

\* C16: in clickWhenClickable a click command is issued only after the
\* findElement of an attempt, once per attempt, and its answer ends the attempt;
\* the page accepts at most one click, the call has resolved exactly when it
\* accepted one, and a resolved call does nothing more.
C16_OneClickPerAttempt ==
    [][proc[1].kind = "CW"
       => /\ clicks' <= 1
          /\ (proc'[1].res = "true") <=> (clicks' = 1)
          /\ (proc'[1].pc = "click" /\ proc[1].pc # "click")
             => (proc[1].pc = "find" /\ clicks = 0)
          /\ (proc[1].pc = "click" /\ proc'[1].pc # "click")
             => proc'[1].pc \in {"done", "sleep"}
          /\ proc[1].pc = "done" => (proc'[1].pc = "done" /\ clicks' = clicks)]_vars

\* C16 witness: clickWhenClickable resolved on a later attempt than its first.
C16_Witness ==
    /\ proc[1].kind = "CW" /\ proc[1].res = "true" /\ clicks = 1
    /\ proc[1].att > proc[1].start

\* C17, as claimed: isEventuallyPresentAndDisplayed resolves with true after an
\* attempt that yielded true, and is rejected when its wait ended on an attempt
\* that yielded false (the wait timed out).
C17_AsClaimed ==
    (proc[1].kind = "EV" /\ proc[1].pc = "done")
    => proc[1].res = (IF proc[1].val THEN "true" ELSE "timeout")

(* --------------------------- claims: the Manager ---------------------- *)
Constructed == nManagers > 0

\* C18, as claimed: a Manager constructed with a browser name that is neither
\* chrome nor firefox, whatever the configuration, has failed at session setup.
C18_AsClaimed ==
    (Constructed /\ ToLowerCase(manager.browser) \notin {"chrome", "firefox"})
    => manager.error # "none"

\* C18, amended: a Manager for a local session (the resolved configuration has
\* no truthy useSauce) constructed with a browser name that is neither chrome
\* nor firefox has failed with the unsupported-browser error and has built no
\* driver; with useSauce the browser argument is not examined.
C18_LocalSessionRejectsBrowser ==
    (/\ Constructed /\ ToLowerCase(manager.browser) \notin {"chrome", "firefox"}
     /\ ~Truthy(defaultArgs, "useSauce"))
    => (manager.error = "UnsupportedBrowser" /\ manager.driver = "none" /\ commands = <<>>)

\* C18 witness: a local session was asked for safari and failed.
C18_Witness ==
    /\ Constructed /\ manager.browser = "safari" /\ ~Truthy(defaultArgs, "useSauce")
    /\ manager.error = "UnsupportedBrowser"

SizeClasses == {"mobile", "tablet", "desktop", "laptop"}

\* C19, as claimed: a Manager whose resolved screen-size class is none of
\* mobile, tablet, desktop, laptop has failed at session setup, whatever the
\* configuration.
C19_AsClaimed ==
    (Constructed /\ manager.size \notin SizeClasses) => manager.error # "none"

\* C19, amended: of the Managers whose driver was built and whose resolved
\* screen-size class is none of the four, those with resizeBrowserWindow
\* enabled have failed with the unsupported-screen-size error, after the two
\* timeouts were issued and without a resize; those with resizeBrowserWindow
\* disabled have not failed: the size class is not examined.
C19_ResizeRejectsSize ==
    (Constructed /\ manager.size \notin SizeClasses /\ manager.driver # "none")
    => /\ Len(commands) = 2
       /\ manager.error = (IF Truthy(defaultArgs, "resizeBrowserWindow")
                           THEN "UnsupportedScreenSize" ELSE "none")

\* C19 witness: a Manager with resizeBrowserWindow enabled and an unknown size
\* class has failed.
C19_Witness ==
    /\ Constructed /\ manager.size \notin SizeClasses
    /\ Truthy(defaultArgs, "resizeBrowserWindow")
    /\ manager.error = "UnsupportedScreenSize"

KnownProxy == ToLowerCase(Get(defaultArgs, "proxy")) \in {"direct", "system"}

\* C20, as claimed: a Manager whose proxy mode is neither direct nor system has
\* failed at session setup, for local and remote-grid sessions alike.
C20_AsClaimed ==
    (Constructed /\ ~KnownProxy) => manager.error # "none"

\* C20, amended: a Manager for a local chrome or firefox session whose proxy
\* mode is neither direct nor system has failed with the unknown-proxy error
\* and has built no driver; a remote-grid session (useSauce) never fails with
\* that error: its proxy mode is not examined.
C20_LocalSessionRejectsProxy ==
    (Constructed /\ ~KnownProxy)
    => IF Truthy(defaultArgs, "useSauce")
       THEN manager.error # "UnknownProxy"
       ELSE ToLowerCase(manager.browser) \in {"chrome", "firefox"}
            => (manager.error = "UnknownProxy" /\ manager.driver = "none"
                /\ commands = <<>>)

\* C20 witness: a local firefox session with an unknown proxy mode has failed.
C20_Witness ==
    /\ Constructed /\ ~KnownProxy /\ manager.browser = "Firefox"
    /\ ~Truthy(defaultArgs, "useSauce") /\ manager.error = "UnknownProxy"

\* C21, as claimed: the configuration of a Manager does not change once the
\* Manager is constructed, whatever is constructed after it.
C21_AsClaimed ==
    [][(Constructed /\ manager.error = "none")
       => ConfigOf(nManagers)' = ConfigOf(nManagers)]_vars

\* C22, as claimed: once a Manager is constructed, a change of the environment
\* variable BROWSERSIZE does not change what getConfigScreenSize returns.
C22_AsClaimed ==
    [][(Constructed /\ manager.error = "none" /\ BROWSERSIZE' # BROWSERSIZE)
       => getConfigScreenSize(ConfigOf(nManagers), BROWSERSIZE)'
          = getConfigScreenSize(ConfigOf(nManagers), BROWSERSIZE)]_vars

\* C23, as claimed: a chrome session is started headless when the environment
\* variable HEADLESS is set or the config has headless: true, and an explicit
\* config value decides over the environment.
C23_AsClaimed ==
    (manager.driver = "chrome" /\ manager.error = "none"
     /\ (IF "headless" \in DOMAIN ConfigOf(nManagers)
         THEN ConfigOf(nManagers)["headless"] ELSE HEADLESS # Undefined))
    => "--headless" \in manager.args

\* C24: once the driver has run every window().setSize that resizeBrowser
\* scheduled, and the last resizeBrowser( s ) was for one of the four size
\* classes, the window is as wide and as high as getScreenSizeAsObject( s ) says.
C24_ResizeSetsWindow ==
    (resize.arg \in SizeClasses /\ setSizeQueue = <<>>)
    => window = getScreenSizeAsObject(resize.arg)

C24_Witness ==
    /\ resize.arg = "laptop" /\ setSizeQueue = <<>>
    /\ manager.size = "desktop"
    /\ window = <<1400, 790>>

C26_QuitsOnceAfterDelay ==
    /\ quits <= 1
    /\ (\A c \in QuitIds : quitCall[c].pc \in {"idle", "sleep"}) => quits = 0
    /\ \A c \in QuitIds :
          /\ quitCall[c].pc \in {"quit", "done"}
                => quitCall[c].issued >= quitCall[c].start + quitCall[c].wait
          /\ quitCall[c].res = "resolved" => quitCall[c].pc = "done" /\ quits = 1

C26_Witness ==
    \E c \in QuitIds :
        /\ quitCall[c].res = "resolved"
        /\ quitCall[c].wait = 2
        /\ quits = 1

\* C27: when clearCookiesAndDeleteLocalStorage was called on a page with a
\* regular URL and every command it issued has been answered, the session has
\* no cookie and localStorage has no key.
C27_StorageCleared ==
    (/\ clearCall.pc = "called"
     /\ url \in {"http://localhost/", "https://data.example/"}
     /\ clearCall.cookiesCmd = "done" /\ clearCall.urlCmd = "done"
     /\ clearCall.scriptCmd # "issued")
    => cookies = {} /\ localStorage = {}

C27_Witness ==
    /\ clearCall.pc = "called"
    /\ url = "https://data.example/"
    /\ clearCall.cookiesCmd = "done" /\ clearCall.urlCmd = "done"
    /\ clearCall.scriptCmd = "done"
    /\ cookies = {} /\ localStorage = {}

\* C28, as claimed: clearCookiesAndDeleteLocalStorage returns true, and the
\* caller has the value only once localStorage has been cleared.
C28_AsClaimed ==
    clearCall.returned # "pending"
    => /\ clearCall.returned = "true"
       /\ clearCall.scriptCmd = "done"
       /\ localStorage = {}

Range(seq) == {seq[i] : i \in DOMAIN seq}

\* C29: two calls of setWhenSettable with secureValue: true that differ in the
\* value at most and time out are rejected with the same message, and neither
\* value is part of it.
C29_SecureValueNotInMessage ==
    (messages # <<>> /\ messageArgs.secureValue = "true")
    => /\ messages[1] = messages[2]
       /\ messageArgs.value[1] \notin Range(messages[1])
       /\ messageArgs.value[2] \notin Range(messages[2])

C29_Witness ==
    /\ messages # <<>>
    /\ messageArgs.secureValue = "true"
    /\ messageArgs.value = <<"hunter2", "s3cret">>
    /\ "*********" \in Range(messages[1])

\* C30, as claimed: of the remote commands a helper invocation and the pollers
\* it started have issued, at most one is in flight at any moment.
C30_AsClaimed ==
    \A p \in ProcIds :
        proc[p].par = 0
        => Cardinality({q \in ProcIds : /\ q = p \/ proc[q].par = p
                                        /\ proc[q].pc \in CommandPcs}) <= 1

\* C31, as claimed: takeScreenshot without a current test issues no command and
\* writes no file; with a current test it ends resolved, having written one file
\* and no more, in the directory config.screenshotsDir of its Manager, under the
\* name made of state, size class, slugified title and timestamp; it is not
\* resolved before the file is there.
C31_AsClaimed ==
    /\ shotCall.pc = "returned" => shotCall.issued = 0 /\ files = {}
    /\ shotCall.res = "resolved" => Cardinality(files) = 1
    /\ (shotCall.pc = "done" /\ nManagers = shotCall.mgr)
         => /\ shotCall.res = "resolved"
            /\ files = {<<Get(ConfigOf(shotCall.mgr), "screenshotsDir"), shotCall.filename>>}

\* C32, as claimed: once setWhenSettable has resolved, no poller the call
\* started is still under way and the field holds the typed value.
C32_AsClaimed ==
    (proc[1].kind = "SS" /\ proc[1].res = "true")
    => /\ \A q \in ProcIds : proc[q].par = 1 => ~Active(q)
       /\ fieldVal = TypedValue

\* C33, as claimed: a construction that throws for an unsupported browser,
\* proxy mode or screen size has started no browser session.
C33_AsClaimed ==
    [][(nManagers' = nManagers + 1
        /\ manager'.error \in {"UnsupportedBrowser", "UnknownProxy", "UnsupportedScreenSize"})
       => (sessions' = sessions /\ manager'.driver = "none")]_vars

C36_AsClaimed ==
    resize.arg # Undefined
    => (resize.error = "UnsupportedScreenSize" <=> getScreenSizeAsObject(resize.arg) = NoSize)

\* C37: deleteLocalStorage runs the script that clears localStorage exactly
\* when the URL neither starts with 'data:' nor is 'about:blank'; on a URL of
\* these two kinds no step of clearCookiesAndDeleteLocalStorage changes
\* localStorage, and its deleteAllCookies still leaves no cookie.
C37_ClearsOnRegularUrlOnly ==
    [][/\ (clearCall.urlCmd = "issued" /\ clearCall'.urlCmd = "done")
           => (clearCall'.scriptCmd = "issued"
               <=> url \notin {"data:,", "data:text/html,hi", "about:blank"})
       /\ clearCall'.scriptCmd = "done" => clearCall.scriptCmd \in {"issued", "done"}
       /\ url \in {"data:,", "data:text/html,hi", "about:blank"}
           => /\ localStorage' = localStorage
              /\ clearCall'.cookiesCmd = "done" => cookies' = {}]_vars

C37_Witness ==
    /\ url = "data:text/html,hi"
    /\ clearCall.urlCmd = "done" /\ clearCall.scriptCmd = "skipped"
    /\ clearCall.cookiesCmd = "done"
    /\ cookies = {} /\ localStorage = StorageKeys

====
